---- MODULE Spec2Model ----
(***************************************************************************)
(* Model of gmhafiz/mirip: the import registry and the per-method variable *)
(* allocator (internal/registry) and the command's run function.          *)
(*                                                                         *)
(* A Go string is a sequence of one-character strings, so that            *)
(* concatenation, splitting, sanitising and lower-casing are computed.    *)
(***************************************************************************)
EXTENDS Integers, Sequences, FiniteSets, TLC

VARIABLES registry, scopes, status, replay, pc, flags, fs, out, err

vars == <<registry, scopes, status, replay, pc, flags, fs, out, err>>

\* ------------------------------------------------------------ bounds

\* Total number of AddVar calls of one generation run (over all scopes).
MaxCalls == 3

\* The highest level uniqueName is asked for.
MaxLevel == 3

\* ------------------------------------------------------------ strings

Nil == [nil |-> TRUE]

Slash == "/"

Digit == <<"0", "1", "2", "3", "4", "5", "6", "7", "8", "9">>

RECURSIVE Itoa(_)
\* strconv.Itoa for n >= 0.
Itoa(n) ==
    IF n < 10 THEN <<Digit[n + 1]>>
    ELSE Itoa(n \div 10) \o <<Digit[(n % 10) + 1]>>

Upper ==
    ("A" :> "a") @@ ("B" :> "b") @@ ("C" :> "c") @@ ("D" :> "d") @@ ("E" :> "e") @@
    ("F" :> "f") @@ ("G" :> "g") @@ ("H" :> "h") @@ ("I" :> "i") @@ ("J" :> "j") @@
    ("K" :> "k") @@ ("L" :> "l") @@ ("M" :> "m") @@ ("N" :> "n") @@ ("O" :> "o") @@
    ("P" :> "p") @@ ("Q" :> "q") @@ ("R" :> "r") @@ ("S" :> "s") @@ ("T" :> "t") @@
    ("U" :> "u") @@ ("V" :> "v") @@ ("W" :> "w") @@ ("X" :> "x") @@ ("Y" :> "y") @@
    ("Z" :> "z")

\* strings.ToLower
ToLower(s) ==
    [i \in 1..Len(s) |-> IF s[i] \in DOMAIN Upper THEN Upper[s[i]] ELSE s[i]]

HasPrefix(s, p) ==
    /\ Len(p) <= Len(s)
    /\ SubSeq(s, 1, Len(p)) = p

Drop(s, k) == SubSeq(s, k + 1, Len(s))

RECURSIVE Split(_)
\* strings.Split(s, "/"): always at least one (possibly empty) segment.
Split(s) ==
    IF \A i \in 1..Len(s) : s[i] # Slash THEN <<s>>
    ELSE LET k == CHOOSE i \in 1..Len(s) :
                      /\ s[i] = Slash
                      /\ \A j \in 1..(i - 1) : s[j] # Slash
         IN <<SubSeq(s, 1, k - 1)>> \o Split(Drop(s, k))

RECURSIVE Join(_)
\* strings.Join(segs, "/")
Join(segs) ==
    IF Len(segs) = 0 THEN <<>>
    ELSE IF Len(segs) = 1 THEN segs[1]
    ELSE segs[1] \o <<Slash>> \o Join(Tail(segs))

\* ------------------------------------------------------------ package.go

\* The old strings of the replacer, in argument order; each is replaced by "".
replacerOlds ==
    << <<"g", "o", "-">>, <<"-", "g", "o">>, <<"-">>, <<"_">>,
       <<".">>, <<"@">>, <<"+">>, <<"~">> >>

RECURSIVE replacer(_)
\* replacer.Replace(s): scanning left to right, at each position the first old
\* string (in argument order) that matches there is removed; matches do not
\* overlap.
replacer(s) ==
    IF Len(s) = 0 THEN <<>>
    ELSE LET hits == {i \in 1..Len(replacerOlds) : HasPrefix(s, replacerOlds[i])}
         IN IF hits = {} THEN <<Head(s)>> \o replacer(Tail(s))
            ELSE LET first == CHOOSE i \in hits : \A j \in hits : i <= j
                 IN replacer(Drop(s, Len(replacerOlds[first])))

min(a, b) == IF a < b THEN a ELSE b

\* reverse(a): the in-place swap loop, as the permutation it performs.
reverse(a) == [i \in 1..Len(a) |-> a[Len(a) + 1 - i]]

VendorSeg == <<"v", "e", "n", "d", "o", "r">>

\* stripVendorPath(p): everything up to and including a vendor/ path segment
\* is discarded.
stripVendorPath(p) ==
    LET segs == Split(p)
        at   == {i \in 1..(Len(segs) - 1) : segs[i] = VendorSeg}
    IN IF at = {} THEN p
       ELSE LET k == CHOOSE i \in at : \A j \in at : j <= i
            IN Join(SubSeq(segs, k + 1, Len(segs)))

\* A types.Package is [path, name]; a Package is [pkg, Alias], or Nil.

\* Path without the vendor prefix removed.
PathKeepsVendor(p) ==
    IF p = Nil THEN <<>>
    ELSE p.pkg.path

\* (*Package).Path
Path(p) ==
    IF p = Nil THEN <<>>
    ELSE stripVendorPath(p.pkg.path)

\* Qualifier that returns the alias even when none is set.
QualifierAliasOnly(p) ==
    IF p = Nil THEN <<>>
    ELSE p.Alias

\* Qualifier that disregards the alias.
QualifierIgnoresAlias(p) ==
    IF p = Nil THEN <<>>
    ELSE p.pkg.name

\* (*Package).Qualifier
Qualifier(p) ==
    IF p = Nil THEN <<>>
    ELSE IF p.Alias # <<>> THEN p.Alias
    ELSE p.pkg.name

RECURSIVE uniqueNameFromAppends(_, _, _, _)
\* The loop of uniqueName appending each more distant segment instead of
\* prepending it.
uniqueNameFromAppends(pp, i, bound, name) ==
    IF i < bound
    THEN uniqueNameFromAppends(pp, i + 1, bound, name \o ToLower(replacer(pp[i + 1])))
    ELSE name

RECURSIVE uniqueNameFrom(_, _, _, _)
\* the loop of uniqueName: for i := i; i < bound; i++ { name = f(pp[i]) + name }
uniqueNameFrom(pp, i, bound, name) ==
    IF i < bound
    THEN uniqueNameFrom(pp, i + 1, bound, ToLower(replacer(pp[i + 1])) \o name)
    ELSE name

\* (Package).uniqueName
uniqueName(p, lvl) ==
    LET pp == reverse(Split(Path(p)))
    IN uniqueNameFrom(pp, 0, min(Len(pp), lvl + 1), <<>>)

\* ------------------------------------------------------------ registry

EmptyMap == [k \in {} |-> Nil]

\* Registry.searchImport(name): is some registered package's qualifier name?
searchImport(reg, name) ==
    \E k \in DOMAIN reg.imports : Qualifier(reg.imports[k]) = name

\* The levels 0, 1, ... at which the escalation of AddImport may stop: those
\* whose uniqueName collides with no allocated qualifier.  uniqueName is
\* constant from level Len(segments) - 1 on, so later levels add nothing.
FreeLevels(reg, imprt) ==
    {lvl \in 0..(Len(Split(Path(imprt))) - 1) :
        ~searchImport(reg, uniqueName(imprt, lvl))}

\* Registry.AddImport(pkg): the existing Package of an already registered
\* path; otherwise a new one, whose declared short name is kept unless it
\* collides with a registered qualifier, in which case the level is escalated
\* from 0 until the candidate collides with none.  hung: no level is free and
\* the escalation never ends.
AddImport(reg, pkg) ==
    LET path  == stripVendorPath(pkg.path)
        imprt == [pkg |-> pkg, Alias |-> <<>>]
    IN IF path \in DOMAIN reg.imports
       THEN [reg |-> reg, key |-> path, hung |-> FALSE]
       ELSE IF ~searchImport(reg, Qualifier(imprt))
       THEN [reg  |-> [reg EXCEPT !.imports = (path :> imprt) @@ @],
             key  |-> path, hung |-> FALSE]
       ELSE IF FreeLevels(reg, imprt) = {}
       THEN [reg |-> reg, key |-> path, hung |-> TRUE]
       ELSE LET lvl == CHOOSE l \in FreeLevels(reg, imprt) :
                           \A k \in FreeLevels(reg, imprt) : l <= k
                a   == [imprt EXCEPT !.Alias = uniqueName(imprt, lvl)]
            IN [reg |-> [reg EXCEPT !.imports = (path :> a) @@ @],
                key |-> path, hung |-> FALSE]

\* ------------------------------------------------------------ types

Basic(n) == [kind |-> "Basic", name |-> n]

Named(pkg, n, targs) == [kind |-> "Named", pkg |-> pkg, name |-> n, targs |-> targs]

\* A named type together with the type of its declaration.
Defined(pkg, n, underlying) ==
    [kind |-> "Named", pkg |-> pkg, name |-> n, targs |-> <<>>,
     underlying |-> underlying]

Pointer(t) == [kind |-> "Pointer", elem |-> t]

Array(t) == [kind |-> "Array", elem |-> t]

Slice(t) == [kind |-> "Slice", elem |-> t]

Chan(t) == [kind |-> "Chan", elem |-> t]

Map(k, t) == [kind |-> "Map", key |-> k, elem |-> t]

Struct(fields) == [kind |-> "Struct", fields |-> fields]

Signature(params, results) ==
    [kind |-> "Signature", params |-> params, results |-> results]

Interface(methods, embeddeds) ==
    [kind |-> "Interface", methods |-> methods, embeddeds |-> embeddeds]

\* ------------------------------------------------------------ method scope

MiripParam == <<"M", "i", "r", "i", "p", "P", "a", "r", "a", "m">>

MirippParam == <<"M", "i", "r", "i", "p", "p", "P", "a", "r", "a", "m">>

ReservedNames ==
    { <<"m","o","c","k">>,
      <<"c","a","l","l","I","n","f","o">>,
      <<"b","r","e","a","k">>,
      <<"d","e","f","a","u","l","t">>,
      <<"f","u","n","c">>,
      <<"i","n","t","e","r","f","a","c","e">>,
      <<"s","e","l","e","c","t">>,
      <<"c","a","s","e">>,
      <<"d","e","f","e","r">>,
      <<"g","o">>,
      <<"m","a","p">>,
      <<"s","t","r","u","c","t">>,
      <<"c","h","a","n">>,
      <<"e","l","s","e">>,
      <<"g","o","t","o">>,
      <<"p","a","c","k","a","g","e">>,
      <<"s","w","i","t","c","h">>,
      <<"c","o","n","s","t">>,
      <<"f","a","l","l","t","h","r","o","u","g","h">>,
      <<"i","f">>,
      <<"r","a","n","g","e">>,
      <<"t","y","p","e">>,
      <<"c","o","n","t","i","n","u","e">>,
      <<"f","o","r">>,
      <<"i","m","p","o","r","t">>,
      <<"r","e","t","u","r","n">>,
      <<"v","a","r">>,
      <<"s","t","r","i","n","g">>,
      <<"b","o","o","l">>,
      <<"b","y","t","e">>,
      <<"r","u","n","e">>,
      <<"u","i","n","t","p","t","r">>,
      <<"i","n","t">>,
      <<"i","n","t","8">>,
      <<"i","n","t","1","6">>,
      <<"i","n","t","3","2">>,
      <<"i","n","t","6","4">>,
      <<"u","i","n","t">>,
      <<"u","i","n","t","8">>,
      <<"u","i","n","t","1","6">>,
      <<"u","i","n","t","3","2">>,
      <<"u","i","n","t","6","4">>,
      <<"f","l","o","a","t","3","2">>,
      <<"f","l","o","a","t","6","4">>,
      <<"c","o","m","p","l","e","x","6","4">>,
      <<"c","o","m","p","l","e","x","1","2","8">> }

\* The first letter lower-cased.
deCapitalise(s) ==
    IF Len(s) = 0 THEN s ELSE ToLower(<<Head(s)>>) \o Tail(s)

RECURSIVE varNameForType(_)
\* varNameForType(t): a name synthesized from the shape of the type.
varNameForType(t) ==
    CASE t.kind = "Named"     -> deCapitalise(t.name)
      [] t.kind = "Basic"     -> t.name
      [] t.kind = "Pointer"   -> varNameForType(t.elem)
      [] t.kind = "Array"     -> varNameForType(t.elem) \o <<"s">>
      [] t.kind = "Slice"     -> varNameForType(t.elem) \o <<"s">>
      [] t.kind = "Chan"      -> <<"c", "h">>
      [] t.kind = "Map"       -> <<"m">>
      [] t.kind = "Signature" -> <<"f", "n">>
      [] t.kind = "Interface" -> <<"i", "f", "a", "c", "e", "V", "a", "l">>
      [] t.kind = "Struct"    -> <<"v", "a", "l">>

\* varName(vr, suffix)
varName(vr, suffix) ==
    IF vr.name # <<>> /\ vr.name # <<"_">>
    THEN vr.name \o suffix
    ELSE LET name == varNameForType(vr.type) \o suffix
         IN IF name \in ReservedNames THEN name \o MiripParam ELSE name

\* The types populateImports recurses into from t, in the order of the code.
Children(t) ==
    CASE t.kind = "Array"     -> <<t.elem>>
      [] t.kind = "Slice"     -> <<t.elem>>
      [] t.kind = "Signature" -> t.params \o t.results
      [] t.kind = "Map"       -> <<t.key, t.elem>>
      [] t.kind = "Chan"      -> <<t.elem>>
      [] t.kind = "Pointer"   -> <<t.elem>>
      [] t.kind = "Struct"    -> t.fields
      [] t.kind = "Interface" -> t.methods \o t.embeddeds
      [] OTHER                -> <<>>

RECURSIVE populateImports(_, _)
RECURSIVE populateEach(_, _)
\* populateImports descending into the underlying type of a named type.
populateImportsIntoUnderlying(t, st) ==
    IF st.hung THEN st
    ELSE IF t.kind = "Named"
    THEN LET own == IF t.pkg # Nil
                    THEN LET r == AddImport(st.reg, t.pkg)
                         IN IF r.hung THEN [st EXCEPT !.hung = TRUE]
                            ELSE [reg     |-> r.reg,
                                  imports |-> (stripVendorPath(t.pkg.path) :> r.key) @@
                                              [k \in DOMAIN st.imports \ {stripVendorPath(t.pkg.path)}
                                                  |-> st.imports[k]],
                                  hung    |-> FALSE]
                    ELSE st
         IN IF "underlying" \in DOMAIN t
            THEN populateImports(t.underlying, own)
            ELSE own
    ELSE populateEach(Children(t), st)

\* populateImports(t, imports), on st = [reg, imports, hung]: the registry,
\* the imports map being filled (key -> the registered Package, named by its
\* registry key) and whether a registration failed to return.
populateImports(t, st) ==
    IF st.hung THEN st
    ELSE IF t.kind = "Named"
    THEN IF t.pkg # Nil
         THEN LET r == AddImport(st.reg, t.pkg)
              IN IF r.hung THEN [st EXCEPT !.hung = TRUE]
                 ELSE [reg     |-> r.reg,
                       imports |-> (stripVendorPath(t.pkg.path) :> r.key) @@
                                   [k \in DOMAIN st.imports \ {stripVendorPath(t.pkg.path)}
                                       |-> st.imports[k]],
                       hung    |-> FALSE]
         ELSE st
    ELSE populateEach(Children(t), st)

\* The loops of populateImports over several component types.
populateEach(ts, st) ==
    IF Len(ts) = 0 THEN st
    ELSE populateEach(Tail(ts), populateImports(Head(ts), st))

\* searchVar(name): the index of the first var of that Name, 0 when none.
searchVar(vs, name) ==
    IF \E i \in 1..Len(vs) : vs[i].Name = name
    THEN CHOOSE i \in 1..Len(vs) :
             /\ vs[i].Name = name
             /\ \A j \in 1..(i - 1) : vs[j].Name # name
    ELSE 0

RECURSIVE resolveImportVarConflicts(_, _, _, _)
\* resolveImportVarConflicts(imports), ranging over the map's keys in `order`.
resolveImportVarConflicts(vs, reg, imports, order) ==
    IF Len(order) = 0 THEN vs
    ELSE LET imprt == reg.imports[imports[Head(order)]]
             i     == searchVar(vs, Qualifier(imprt))
             vs1   == IF i # 0
                      THEN [vs EXCEPT ![i].Name = @ \o MirippParam]
                      ELSE vs
         IN resolveImportVarConflicts(vs1, reg, imports, Tail(order))

RECURSIVE resolveVarNameConflictNoStep(_, _, _)
\* resolveVarNameConflict without the n++ that follows the rename of the
\* original var.
resolveVarNameConflictNoStep(m, suggested, n) ==
    IF searchVar(m.vars, suggested \o Itoa(n)) # 0
    THEN resolveVarNameConflictNoStep(m, suggested, n + 1)
    ELSE IF n = 1
    THEN LET conflict == searchVar(m.vars, suggested)
         IN IF conflict = 0
            THEN [scope |-> m, name |-> suggested, panic |-> TRUE]
            ELSE [scope |-> [vars       |-> [m.vars EXCEPT ![conflict].Name = @ \o <<"1">>],
                             conflicted |-> m.conflicted \cup {suggested}],
                  name  |-> suggested \o Itoa(n),
                  panic |-> FALSE]
    ELSE [scope |-> m, name |-> suggested \o Itoa(n), panic |-> FALSE]

RECURSIVE resolveVarNameConflictFrom(_, _, _)
\* resolveVarNameConflict(suggested), from loop counter n on; the result is
\* [scope, name, panic]: panic is the nil dereference of conflict.Name.
resolveVarNameConflictFrom(m, suggested, n) ==
    IF searchVar(m.vars, suggested \o Itoa(n)) # 0
    THEN resolveVarNameConflictFrom(m, suggested, n + 1)
    ELSE IF n = 1
    THEN LET conflict == searchVar(m.vars, suggested)
         IN IF conflict = 0
            THEN [scope |-> m, name |-> suggested, panic |-> TRUE]
            ELSE [scope |-> [vars       |-> [m.vars EXCEPT ![conflict].Name = @ \o <<"1">>],
                             conflicted |-> m.conflicted \cup {suggested}],
                  name  |-> suggested \o Itoa(n + 1),
                  panic |-> FALSE]
    ELSE [scope |-> m, name |-> suggested \o Itoa(n), panic |-> FALSE]

resolveVarNameConflict(m, suggested) == resolveVarNameConflictFrom(m, suggested, 1)

\* The orders in which a range over a map with these keys may visit them.
Orders(keys) ==
    {o \in [1..Cardinality(keys) -> keys] :
        \A i, j \in 1..Cardinality(keys) : i # j => o[i] # o[j]}

\* The tail of AddVar putting the new Var in front of the earlier ones.
AddVarNamePrepends(reg, m, vr, suffix, imports) ==
    LET name0 == varName(vr, suffix)
        name1 == IF searchImport(reg, name0) THEN name0 \o MiripParam ELSE name0
        r     == IF searchVar(m.vars, name1) # 0 \/ name1 \in m.conflicted
                 THEN resolveVarNameConflict(m, name1)
                 ELSE [scope |-> m, name |-> name1, panic |-> FALSE]
        v     == [vr |-> vr, suffix |-> suffix, imports |-> imports, Name |-> r.name]
    IN IF r.panic
       THEN [registry |-> reg, scope |-> m, status |-> "panic"]
       ELSE [registry |-> reg,
             scope    |-> [r.scope EXCEPT !.vars = <<v>> \o @],
             status   |-> "ok"]

\* AddVar from the name computation on (lines 108-124), after the imports
\* were populated and the import/var conflicts resolved.  A Var is
\* [vr, imports, Name]; suffix records the argument of the call that made it
\* (a history field, read by no operation).
AddVarName(reg, m, vr, suffix, imports) ==
    LET name0 == varName(vr, suffix)
        name1 == IF searchImport(reg, name0) THEN name0 \o MiripParam ELSE name0
        r     == IF searchVar(m.vars, name1) # 0 \/ name1 \in m.conflicted
                 THEN resolveVarNameConflict(m, name1)
                 ELSE [scope |-> m, name |-> name1, panic |-> FALSE]
        v     == [vr |-> vr, suffix |-> suffix, imports |-> imports, Name |-> r.name]
    IN IF r.panic
       THEN [registry |-> reg, scope |-> m, status |-> "panic"]
       ELSE [registry |-> reg,
             scope    |-> [r.scope EXCEPT !.vars = Append(@, v)],
             status   |-> "ok"]

\* (*MethodScope).AddVar(vr, suffix) on registry reg and scope m: the set of
\* its possible outcomes [registry, scope, status], one per order in which
\* the range over the imports map may run.
AddVarOutcomes(reg, m, vr, suffix) ==
    LET st == populateImports(vr.type, [reg |-> reg, imports |-> EmptyMap, hung |-> FALSE])
    IN IF st.hung
       THEN {[registry |-> st.reg, scope |-> m, status |-> "hung"]}
       ELSE {AddVarName(st.reg,
                        [m EXCEPT !.vars =
                            resolveImportVarConflicts(@, st.reg, st.imports, o)],
                        vr, suffix, st.imports) : o \in Orders(DOMAIN st.imports)}

\* ------------------------------------------------------------ inputs

\* The packages the type oracle supplies: [path, name].
PkgAC == [path |-> <<"a", "/", "c">>, name |-> <<"c">>]

PkgSC == [path |-> <<"s", "/", "c">>, name |-> <<"c">>]

PkgVendAC ==
    [path |-> <<"x", "/", "v", "e", "n", "d", "o", "r", "/", "a", "/", "c">>,
     name |-> <<"c">>]

PkgC == [path |-> <<"c">>, name |-> <<"c">>]

PkgV2 == [path |-> <<"v", "2">>, name |-> <<"v", "2">>]

PkgCM ==
    [path |-> <<"c">> \o MirippParam, name |-> <<"c">> \o MirippParam]

TInt == Basic(<<"i", "n", "t">>)

Error == Named(Nil, <<"e", "r", "r", "o", "r">>, <<>>)

T(pkg) == Named(pkg, <<"T">>, <<>>)

\* The AddVar calls the generator may make: the declared variable (name and
\* type) and the suffix.
Calls ==
    { [vr |-> [name |-> <<"v">>, type |-> TInt], suffix |-> <<>>],
      [vr |-> [name |-> <<"v">>,
               type |-> Pointer(Map(TInt, Slice(Struct(<<Chan(Array(Error))>>))))],
       suffix |-> <<"2">>],
      [vr |-> [name |-> <<"i", "n", "t">>,
               type |-> Defined(PkgC, <<"T">>, Struct(<<T(PkgSC)>>))],
       suffix |-> <<>>],
      [vr |-> [name |-> <<>>, type |-> Pointer(Named(PkgAC, <<"I", "n", "t">>, <<>>))],
       suffix |-> <<>>],
      [vr |-> [name |-> <<"c">>,
               type |-> Map(T(PkgSC), Slice(Struct(<<Chan(Array(T(PkgVendAC)))>>)))],
       suffix |-> <<>>],
      [vr |-> [name |-> <<"_">>, type |-> Named(PkgV2, <<"T">>, <<T(PkgCM)>>)],
       suffix |-> <<>>],
      [vr |-> [name |-> <<"c">>, type |-> TInt], suffix |-> <<>>],
      [vr |-> [name |-> <<"w">>,
               type |-> Interface(<<Signature(<<T(PkgAC)>>, <<Error>>)>>, <<T(PkgCM)>>)],
       suffix |-> <<"O", "u", "t">>] }

\* The method scopes of the run.
Scopes == {"A", "B"}

\* ------------------------------------------------------------ state

\* A new Registry and the scopes made from it.
NewRegistry == [imports |-> EmptyMap]

NewMethodScope == [vars |-> <<>>, conflicted |-> {}]

NewRun ==
    [registry |-> NewRegistry,
     scopes   |-> [s \in Scopes |-> NewMethodScope],
     status   |-> "ok"]

RECURSIVE SumLen(_, _)
SumLen(scs, S) ==
    IF S = {} THEN 0
    ELSE LET s == CHOOSE x \in S : TRUE
         IN Len(scs[s].vars) + SumLen(scs, S \ {s})

\* The number of variables allocated so far in the run.
TotalVars == SumLen(scopes, Scopes)

RegistryInit ==
    /\ registry = NewRegistry
    /\ scopes = [s \in Scopes |-> NewMethodScope]
    /\ status = "ok"
    /\ replay = NewRun

\* The command has not been started.
RunIdle ==
    /\ pc = "idle"
    /\ flags = [outFile |-> FALSE, remove |-> FALSE, nargs |-> 0]
    /\ fs = [file |-> "absent", dir |-> FALSE, file0 |-> "absent", dir0 |-> FALSE]
    /\ out = [buf |-> "empty", stdout |-> "empty"]
    /\ err = "none"

runVars == <<pc, flags, fs, out, err>>

Init == RegistryInit /\ RunIdle

\* AddVar with the conflicted names kept in one map shared by all the scopes.
AddVarOnSharedConflicted(reg, scs, s, c) ==
    {[registry |-> o.registry,
      scopes   |-> [scs EXCEPT ![s] = o.scope],
      status   |-> o.status] :
        o \in AddVarOutcomes(reg,
                             [scs[s] EXCEPT !.conflicted =
                                 UNION {scs[t].conflicted : t \in DOMAIN scs}],
                             c.vr, c.suffix)}

\* AddVar with receiver scs[s]: the method reads and writes the fields of its
\* own receiver (and the registry), and no other scope.
AddVarOn(reg, scs, s, c) ==
    {[registry |-> o.registry,
      scopes   |-> [scs EXCEPT ![s] = o.scope],
      status   |-> o.status] : o \in AddVarOutcomes(reg, scs[s], c.vr, c.suffix)}

\* One call m.AddVar(c.vr, c.suffix) on scope s.
AddVar(s, c) ==
    /\ status = "ok"
    /\ TotalVars < MaxCalls
    /\ \E o \in AddVarOn(registry, scopes, s, c) :
           /\ registry' = o.registry
           /\ scopes' = o.scopes
           /\ status' = o.status
    /\ UNCHANGED <<replay, runVars>>

Next == \E s \in Scopes, c \in Calls : AddVar(s, c)

Spec == Init /\ [][Next]_vars

\* The same call made in two runs of the generator over the same input: the
\* run of the state variables and the run recorded in replay.  Each run ranges
\* over its imports map in an order of its own.
AddVarTwice(s, c) ==
    /\ status = "ok"
    /\ replay.status = "ok"
    /\ TotalVars < MaxCalls
    /\ \E o \in AddVarOn(registry, scopes, s, c) :
           /\ registry' = o.registry
           /\ scopes' = o.scopes
           /\ status' = o.status
    /\ \E o \in AddVarOn(replay.registry, replay.scopes, s, c) : replay' = o
    /\ UNCHANGED runVars

NextReplay == \E s \in Scopes, c \in Calls : AddVarTwice(s, c)

SpecReplay == Init /\ [][NextReplay]_vars

\* Calls on variables of one declared name: bare, with the suffixes 1 and 2,
\* and of a type of package v1.
PkgV1 == [path |-> <<"v", "1">>, name |-> <<"v", "1">>]

NameCalls ==
    { [vr |-> [name |-> <<"v">>, type |-> TInt], suffix |-> <<>>],
      [vr |-> [name |-> <<"v">>, type |-> TInt], suffix |-> <<"1">>],
      [vr |-> [name |-> <<"v">>, type |-> TInt], suffix |-> <<"2">>],
      [vr |-> [name |-> <<"v">>, type |-> T(PkgV1)], suffix |-> <<>>] }

NextNames == \E s \in Scopes, c \in NameCalls : AddVar(s, c)

SpecNames == Init /\ [][NextNames]_vars

\* Calls on unnamed variables of the types of packages that share the leaf
\* name c, some through characters the replacer removes.
PkgGoSC ==
    [path |-> <<"G", "o", "-", "s", "/", "g", "o", "-", "c">>, name |-> <<"c">>]

PkgDots ==
    [path |-> <<"s", "/", "-", "g", "o", ".", "c", "@", "+", "~", "_">>,
     name |-> <<"c">>]

ImportPkgs == {PkgAC, PkgSC, PkgVendAC, PkgC, PkgGoSC, PkgDots}

ImportCalls ==
    {[vr |-> [name |-> <<>>, type |-> T(p)], suffix |-> <<>>] : p \in ImportPkgs}

NextImports == \E s \in Scopes, c \in ImportCalls : AddVar(s, c)

SpecImports == Init /\ [][NextImports]_vars

\* ------------------------------------------------------------ run (main)

\* flags: outFile (is -out given), remove (-rm), nargs (len(flags.args)).
\* fs: the output path (file: "absent", "old" content, "partial" or "new"
\* content) and its directory (dir), with their states at the call (file0,
\* dir0).  out: what has been rendered into buf and onto standard output.
\* err: the error run returns.  pc: the statement run is at.

regVars == <<registry, scopes, status, replay>>

\* run is called: any flags, on an output path that does or does not exist.
RunInit ==
    /\ pc = "args"
    /\ flags \in [outFile : BOOLEAN, remove : BOOLEAN, nargs : 1..3]
    /\ \E f \in {"absent", "old"}, d \in BOOLEAN :
           /\ (f = "old" => d)
           /\ fs = [file |-> f, dir |-> d, file0 |-> f, dir0 |-> d]
    /\ out = [buf |-> "empty", stdout |-> "empty"]
    /\ err = "none"

Return(e) ==
    /\ pc' = "done"
    /\ err' = e

\* if len(flags.args) < 2 { return errors.New(...) }
CheckArgs ==
    /\ pc = "args"
    /\ IF flags.nargs < 2
       THEN Return("args")
       ELSE pc' = "remove" /\ err' = err
    /\ UNCHANGED <<flags, fs, out, regVars>>

\* if flags.remove && flags.outFile != "" { os.Remove(flags.outFile) }: the
\* file is removed, or is not there (ErrNotExist, ignored), or Remove fails
\* with another error, which is returned.
RemoveOutFile ==
    /\ pc = "remove"
    /\ IF flags.remove /\ flags.outFile
       THEN \/ /\ fs.file # "absent"
               /\ fs' = [fs EXCEPT !.file = "absent"]
               /\ pc' = "new" /\ err' = err
            \/ /\ fs.file = "absent"
               /\ fs' = fs
               /\ pc' = "new" /\ err' = err
            \/ /\ fs.file # "absent"
               /\ fs' = fs
               /\ Return("remove")
       ELSE /\ fs' = fs
            /\ pc' = "new" /\ err' = err
    /\ UNCHANGED <<flags, out, regVars>>

\* m, err := mirip.New(...); if err != nil { return err }
NewMirip ==
    /\ pc = "new"
    /\ \/ pc' = "mock" /\ err' = err
       \/ Return("new")
    /\ UNCHANGED <<flags, fs, out, regVars>>

\* Mock writing into a file opened at the output path instead of the buffer.
MockIntoFile ==
    /\ pc = "mock"
    /\ \/ /\ fs' = [fs EXCEPT !.file = "new"]
          /\ pc' = "mkdir" /\ err' = err
       \/ /\ fs' = [fs EXCEPT !.file = "partial"]
          /\ Return("mock")
    /\ UNCHANGED <<flags, out, regVars>>

\* out is &buf when an output file is given, else os.Stdout;
\* if err = m.Mock(out, args...); err != nil { return err }
Mock ==
    /\ pc = "mock"
    /\ \E done \in {"full", "partial", "empty"} :
           /\ out' = IF flags.outFile
                     THEN [out EXCEPT !.buf = done]
                     ELSE [out EXCEPT !.stdout = done]
           /\ IF done = "full"
              THEN pc' = "mkdir" /\ err' = err
              ELSE Return("mock")
    /\ UNCHANGED <<flags, fs, regVars>>

\* if flags.outFile == "" { return nil }; err = os.MkdirAll(dir, 0750)
MkdirAll ==
    /\ pc = "mkdir"
    /\ IF ~flags.outFile
       THEN /\ Return("none")
            /\ fs' = fs
       ELSE \/ /\ fs' = [fs EXCEPT !.dir = TRUE]
               /\ pc' = "write" /\ err' = err
            \/ /\ ~fs.dir
               /\ fs' = fs
               /\ Return("mkdir")
    /\ UNCHANGED <<flags, out, regVars>>

\* return os.WriteFile(flags.outFile, buf.Bytes(), 0600)
WriteFile ==
    /\ pc = "write"
    /\ \/ /\ fs' = [fs EXCEPT !.file = "new"]
          /\ Return("none")
       \/ /\ fs' = [fs EXCEPT !.file = "partial"]
          /\ Return("write")
       \/ /\ fs' = fs
          /\ Return("write")
    /\ UNCHANGED <<flags, out, regVars>>

InitRun == RegistryInit /\ RunInit

NextRun ==
    \/ CheckArgs
    \/ RemoveOutFile
    \/ NewMirip
    \/ Mock
    \/ MkdirAll
    \/ WriteFile

SpecRun == InitRun /\ [][NextRun]_vars

\* ------------------------------------------------------------ claims

Names(m) == {m.vars[i].Name : i \in 1..Len(m.vars)}

Qualifiers(reg) == {Qualifier(reg.imports[k]) : k \in DOMAIN reg.imports}

\* C1: the names of the vars of one method scope are pairwise distinct, the
\* retroactively renamed ones included.
C1_UniqueVarNames ==
    \A s \in Scopes : \A i, j \in 1..Len(scopes[s].vars) :
        i # j => scopes[s].vars[i].Name # scopes[s].vars[j].Name

C3_NoReservedName ==
    \A s \in Scopes : Names(scopes[s]) \cap ReservedNames = {}

\* C4: in a scope that made all the AddVar calls of the run, no var name is
\* the qualifier of a registered package.
C4_NoQualifierName ==
    \A s \in Scopes :
        (\A t \in Scopes \ {s} : scopes[t].vars = <<>>)
            => Names(scopes[s]) \cap Qualifiers(registry) = {}

\* C5: two runs that make the same AddVar calls in the same order end with the
\* same var names and the same package qualifiers.
C5_Deterministic ==
    replay = [registry |-> registry, scopes |-> scopes, status |-> status]

\* The base candidate of the call that made var v.
Base(v) == varName(v.vr, v.suffix)

\* C6: in a scope whose k >= 2 vars were all added with the same base
\* candidate b, while no registered qualifier is b or b followed by one of
\* 1..k, the names are b1, b2, ..., bk in order of addition.
C6_SameBaseNumbered ==
    \A s \in Scopes :
        LET m == scopes[s]
            k == Len(m.vars)
        IN (/\ k >= 2
            /\ \A i \in 1..k : Base(m.vars[i]) = Base(m.vars[1])
            /\ Qualifiers(registry) \cap
                   ({Base(m.vars[1])} \cup {Base(m.vars[1]) \o Itoa(i) : i \in 1..k}) = {})
           => \A i \in 1..k : m.vars[i].Name = Base(m.vars[1]) \o Itoa(i)

\* C6 witness: three vars of one base candidate, named b1, b2, b3.
C6_Witness ==
    \E s \in Scopes :
        LET m == scopes[s]
        IN /\ Len(m.vars) >= 3
           /\ \A i \in 1..Len(m.vars) :
                  /\ Base(m.vars[i]) = Base(m.vars[1])
                  /\ m.vars[i].Name = Base(m.vars[1]) \o Itoa(i)
           /\ Qualifiers(registry) \cap
                  ({Base(m.vars[1])} \cup
                   {Base(m.vars[1]) \o Itoa(i) : i \in 1..Len(m.vars)}) = {}

RECURSIVE AllPkgs(_)
RECURSIVE AllPkgsOf(_)
\* Every package a type refers to, directly or through its components and
\* the type arguments of its named types.
AllPkgs(t) ==
    IF t.kind = "Named"
    THEN (IF t.pkg # Nil THEN {t.pkg} ELSE {}) \cup AllPkgsOf(t.targs)
    ELSE AllPkgsOf(Children(t))

AllPkgsOf(ts) ==
    IF Len(ts) = 0 THEN {} ELSE AllPkgs(Head(ts)) \cup AllPkgsOf(Tail(ts))

\* C7: every package a var's type refers to is registered, and the var's
\* imports are exactly those packages.
C7_AllPackagesRegistered ==
    \A s \in Scopes : \A i \in 1..Len(scopes[s].vars) :
        LET v    == scopes[s].vars[i]
            keys == {stripVendorPath(p.path) : p \in AllPkgs(v.vr.type)}
        IN /\ keys \subseteq DOMAIN registry.imports
           /\ DOMAIN v.imports = keys

RECURSIVE WalkedPkgs(_)
RECURSIVE WalkedPkgsOf(_)
\* The packages of the named types a type is made of (type arguments apart).
WalkedPkgs(t) ==
    IF t.kind = "Named"
    THEN (IF t.pkg # Nil THEN {t.pkg} ELSE {})
    ELSE WalkedPkgsOf(Children(t))

WalkedPkgsOf(ts) ==
    IF Len(ts) = 0 THEN {} ELSE WalkedPkgs(Head(ts)) \cup WalkedPkgsOf(Tail(ts))

\* The packages of the named types of the vars allocated so far.
SeenPkgs ==
    UNION {UNION {WalkedPkgs(scopes[s].vars[i].vr.type) : i \in 1..Len(scopes[s].vars)} :
               s \in Scopes}

AsPackage(pkg) == [pkg |-> pkg, Alias |-> <<>>]

\* C8: a vendored import path and its un-vendored equivalent have the same
\* Path, are stored under the same key of a var's imports, and are one
\* registry record: every record is stored under its Path, and the vendored
\* path itself is a key of neither map.
C8_VendorNormalized ==
    /\ \A k \in DOMAIN registry.imports : Path(registry.imports[k]) = k
    /\ \A p, q \in SeenPkgs :
           stripVendorPath(p.path) = q.path => Path(AsPackage(p)) = Path(AsPackage(q))
    /\ \A s \in Scopes : \A i \in 1..Len(scopes[s].vars) :
           LET v == scopes[s].vars[i]
           IN \A p \in WalkedPkgs(v.vr.type) :
                  LET k == Path(AsPackage(p))
                  IN /\ k \in DOMAIN v.imports
                     /\ v.imports[k] = k
                     /\ k \in DOMAIN registry.imports
                     /\ p.path # stripVendorPath(p.path)
                            => /\ p.path \notin DOMAIN v.imports
                               /\ p.path \notin DOMAIN registry.imports

\* C8 witness: a vendored path and its un-vendored equivalent were both seen,
\* the vendored one first, and are one record.
C8_Witness ==
    \E p, q \in SeenPkgs :
        /\ p.path # q.path
        /\ stripVendorPath(p.path) = q.path
        /\ q.path \in DOMAIN registry.imports
        /\ registry.imports[q.path].pkg = p

\* What a call AddVar(c) on scope s may leave in s, from scopes scs.
ScopeOutcomes(scs, s, c) ==
    {<<o.scopes[s], o.status>> : o \in AddVarOn(registry, scs, s, c)}

\* All scopes but s empty.
Alone(s) == [t \in Scopes |-> IF t = s THEN scopes[s] ELSE NewMethodScope]

\* C9, on states: what AddVar does to a scope is the same whatever the other
\* scopes hold, once the registry is given.
C9_OnlyThroughRegistry ==
    \A s \in Scopes : \A c \in Calls :
        ScopeOutcomes(scopes, s, c) = ScopeOutcomes(Alone(s), s, c)

\* C9: an AddVar call on one scope leaves the vars and the conflicted names
\* of every other scope unchanged, and the names allocated in a scope depend
\* on the other scopes only through the registry.
C9_ScopeIsolation ==
    /\ []C9_OnlyThroughRegistry
    /\ [][\A s, t \in Scopes :
              s # t => (scopes'[s] = scopes[s] \/ scopes'[t] = scopes[t])]_vars

\* C9 witness: one scope has marked a name conflicted and renamed its vars,
\* and another scope holds a var of that bare name.
C9_Witness ==
    \E s, t \in Scopes :
        /\ s # t
        /\ \E n \in scopes[s].conflicted : n \in Names(scopes[t])

GenerationFailed == pc = "done" /\ err \in {"new", "mock"}

\* C10 as stated: with an output file given, the output path is as it was at
\* the call until the whole output is rendered, and still is when run
\* returns the error of a failed generation, whatever the flags.
C10_PathUntouchedOnFailure ==
    flags.outFile =>
        /\ out.buf # "full" => (fs.file = fs.file0 /\ fs.dir = fs.dir0)
        /\ GenerationFailed => (fs.file = fs.file0 /\ fs.dir = fs.dir0)

\* C10 amended: with an output file given, nothing is created or written at
\* the output path until the whole output is rendered; when generation fails
\* run returns that error and the path is as it was at the call, except that
\* with the pre-removal flag the file has been removed.
C10_NoWriteBeforeRender ==
    flags.outFile =>
        /\ out.buf # "full" =>
               /\ fs.dir = fs.dir0
               /\ fs.file \in {fs.file0, "absent"}
               /\ ~flags.remove => fs.file = fs.file0
        /\ GenerationFailed =>
               /\ fs.dir = fs.dir0
               /\ fs.file = IF flags.remove THEN "absent" ELSE fs.file0

\* C10 witness: Mock failed half way with -out and -rm given and a file at
\* the output path at the call.
C10_Witness ==
    /\ pc = "done"
    /\ err = "mock"
    /\ out.buf = "partial"
    /\ flags.outFile
    /\ flags.remove
    /\ fs.file0 = "old"

\* C11: Qualifier is the alias when one is set, else the declared short name
\* of the package, and the empty string for a nil package; Path is the empty
\* string for a nil package.
C11_QualifierOfPackage ==
    /\ Qualifier(Nil) = <<>>
    /\ Path(Nil) = <<>>
    /\ \A k \in DOMAIN registry.imports :
           LET p == registry.imports[k]
           IN /\ Len(p.Alias) > 0 => Qualifier(p) = p.Alias
              /\ Len(p.Alias) = 0 => Qualifier(p) = p.pkg.name

\* C11 witness: a package with an alias and a package without are registered.
C11_Witness ==
    \E k1, k2 \in DOMAIN registry.imports :
        /\ Len(registry.imports[k1].Alias) > 0
        /\ Len(registry.imports[k2].Alias) = 0
        /\ registry.imports[k1].Alias # registry.imports[k1].pkg.name

\* C12: when a call AddVar(v) returns, no var allocated earlier in the scope
\* is named as the qualifier of a package of v's imports; the earlier names
\* were at most extended by a suffix, and the qualifiers of the packages
\* already registered are unchanged.
C12_PackagesWin ==
    [][\A s \in Scopes :
           (status' = "ok" /\ Len(scopes'[s].vars) = Len(scopes[s].vars) + 1) =>
               LET old == scopes[s].vars
                   new == scopes'[s].vars
                   v   == new[Len(new)]
               IN /\ \A k \in DOMAIN v.imports : \A i \in 1..Len(old) :
                         new[i].Name # Qualifier(registry'.imports[v.imports[k]])
                  /\ \A i \in 1..Len(old) : HasPrefix(new[i].Name, old[i].Name)
                  /\ \A k \in DOMAIN registry.imports :
                         Qualifier(registry'.imports[k]) = Qualifier(registry.imports[k])]_vars

\* The candidate AddVar searches the scope for: the base candidate, with
\* MiripParam appended when it is the qualifier of a registered package.
Candidate(v, reg) ==
    IF Base(v) \in Qualifiers(reg) THEN Base(v) \o MiripParam ELSE Base(v)

\* C13: when the candidate of a call is the name of a var of the scope and is
\* not yet marked conflicted, the call renames that var to candidate+"1" and
\* marks the candidate conflicted, so that no var carries the bare candidate;
\* and a call whose candidate is marked conflicted never gets the bare name.
\* (Stated for the calls whose packages rename no var of the scope, so that
\* the vars searched are those before the call.)
C13_FirstConflictRenames ==
    [][\A s \in Scopes :
           (status' = "ok" /\ Len(scopes'[s].vars) = Len(scopes[s].vars) + 1) =>
               LET old  == scopes[s].vars
                   new  == scopes'[s].vars
                   v    == new[Len(new)]
                   cand == Candidate(v, registry')
                   quiet == \A k \in DOMAIN v.imports :
                                searchVar(old, Qualifier(registry'.imports[v.imports[k]])) = 0
               IN /\ (quiet /\ searchVar(old, cand) # 0 /\ cand \notin scopes[s].conflicted)
                         => /\ cand \in scopes'[s].conflicted
                            /\ new[searchVar(old, cand)].Name = cand \o <<"1">>
                            /\ \A i \in 1..Len(new) : new[i].Name # cand
                  /\ cand \in scopes[s].conflicted => v.Name # cand]_vars

\* C17: AddVar never dereferences a missing var: whenever name resolution
\* takes its n == 1 branch, a var of the bare name is in the scope.
C17_ConflictFound == status # "panic"

RECURSIVE ConcatAll(_)
ConcatAll(ss) == IF Len(ss) = 0 THEN <<>> ELSE Head(ss) \o ConcatAll(Tail(ss))

RemovedChars == {"-", "_", ".", "@", "+", "~"}

\* The last min(lvl + 1, n) of the n segments of a path, sanitized, in the
\* order of the path.
LastSegments(path, lvl) ==
    LET segs == Split(path)
        n    == Len(segs)
        m    == IF lvl + 1 < n THEN lvl + 1 ELSE n
    IN [i \in 1..m |-> ToLower(replacer(segs[n - m + i]))]

\* C14: uniqueName(lvl) of a package is the concatenation, in path order, of
\* the sanitized last min(lvl + 1, n) segments of its vendor-stripped path:
\* no removed token and no upper-case letter is left, level 0 is the
\* sanitized last segment, and a/c and s/c resolve to c and sc.
C14_UniqueNameOfLevel ==
    /\ \A k \in DOMAIN registry.imports : \A lvl \in 0..MaxLevel :
           LET p    == registry.imports[k]
               name == uniqueName(p, lvl)
           IN /\ name = ConcatAll(LastSegments(k, lvl))
              /\ \A i \in 1..Len(name) : name[i] \notin RemovedChars \cup DOMAIN Upper
              /\ Len(p.Alias) > 0 => \E l \in 0..MaxLevel : p.Alias = uniqueName(p, l)
    /\ (/\ PkgAC.path \in DOMAIN registry.imports
        /\ PkgSC.path \in DOMAIN registry.imports
        /\ registry.imports[PkgAC.path].Alias = <<>>)
           => /\ Qualifier(registry.imports[PkgAC.path]) = <<"c">>
              /\ Qualifier(registry.imports[PkgSC.path]) = <<"s", "c">>

\* C14 witness: a/c is registered as c and Go-s/go-c, after it, as gosc.
C14_Witness ==
    /\ PkgAC.path \in DOMAIN registry.imports
    /\ PkgGoSC.path \in DOMAIN registry.imports
    /\ Qualifier(registry.imports[PkgAC.path]) = <<"c">>
    /\ Qualifier(registry.imports[PkgGoSC.path]) = <<"g", "o", "s", "c">>

\* C15: for every package of a path not yet registered, some level of
\* uniqueName gives a name that is no allocated qualifier.
C15_EscalationEnds ==
    \A p \in ImportPkgs :
        Path(AsPackage(p)) \notin DOMAIN registry.imports
            => \E lvl \in 0..MaxLevel :
                   uniqueName(AsPackage(p), lvl) \notin Qualifiers(registry)

\* C16: only named types with a package contribute, and a named type is a
\* leaf: the imports of the var a returning AddVar appends are the packages of
\* the named types its type is made of, nothing else is registered, and a type
\* of basic and package-less named types only leaves the registry as it was
\* and the imports empty.
C16_OnlyNamedLeaves ==
    [][\A s \in Scopes :
           (status' = "ok" /\ Len(scopes'[s].vars) = Len(scopes[s].vars) + 1)
               => LET v    == scopes'[s].vars[Len(scopes'[s].vars)]
                      keys == {stripVendorPath(p.path) : p \in WalkedPkgs(v.vr.type)}
                  IN /\ DOMAIN v.imports = keys
                     /\ DOMAIN registry'.imports = DOMAIN registry.imports \cup keys
                     /\ WalkedPkgs(v.vr.type) = {}
                            => registry' = registry /\ v.imports = EmptyMap]_vars

\* C16 witness: a var of a wrapped type without packages has no imports, and
\* the only package registered is the one of a var's named type whose
\* underlying struct has a field of another package.
C16_Witness ==
    /\ \E s \in Scopes : \E i \in 1..Len(scopes[s].vars) :
           LET v == scopes[s].vars[i]
           IN /\ v.vr.type.kind = "Pointer"
              /\ WalkedPkgs(v.vr.type) = {}
              /\ v.imports = EmptyMap
    /\ \E s \in Scopes : \E i \in 1..Len(scopes[s].vars) :
           LET v == scopes[s].vars[i]
           IN /\ "underlying" \in DOMAIN v.vr.type
              /\ DOMAIN v.imports = {PkgC.path}
              /\ DOMAIN registry.imports = {PkgC.path}

\* C18: a returning AddVar appends exactly one Var at the end of the vars of
\* its scope; the earlier Vars keep their positions, types and imports, the
\* Name of each is its previous Name or that Name with a suffix appended, and
\* the conflicted set only grows.
C18_AppendsOneVar ==
    [][(status' = "ok" /\ scopes' # scopes)
           => \E s \in Scopes :
                  LET old == scopes[s].vars
                      new == scopes'[s].vars
                  IN /\ Len(new) = Len(old) + 1
                     /\ \A i \in 1..Len(old) :
                            /\ new[i].vr = old[i].vr
                            /\ new[i].imports = old[i].imports
                            /\ HasPrefix(new[i].Name, old[i].Name)
                     /\ scopes[s].conflicted \subseteq scopes'[s].conflicted
                     /\ \A o \in Scopes \ {s} : scopes'[o] = scopes[o]]_vars

\* C18 witness: a scope of three vars of different declarations whose first
\* var was renamed after it was added, its scope holding a conflicted name.
C18_Witness ==
    \E s \in Scopes :
        LET vs == scopes[s].vars
        IN /\ Len(vs) = 3
           /\ vs[1].vr # vs[2].vr
           /\ vs[1].Name # Base(vs[1])
           /\ HasPrefix(vs[1].Name, Base(vs[1]))
           /\ scopes[s].conflicted # {}

====
